---- MODULE Spec2Model ----
(***************************************************************************)
(* Clock synchronisation bridge of @sqlrooms/cesium (useClockSync), the    *)
(* store slice it reads and writes (createCesiumSlice) and the component   *)
(* that hosts it (CesiumViewerWrapper).                                    *)
(*                                                                         *)
(* Texts are sequences of one-character strings.  Instants of the engine   *)
(* (JulianDate) are integers: seconds counted from 00:00:00 UTC of the     *)
(* first of January of the year a text names.                              *)
(***************************************************************************)
EXTENDS Integers, Sequences, FiniteSets, TLC

\* ------------------------------------------------------------------ bounds
MaxViewers == 2        \* engine handles that may be created in one run
MaxEdits == 1          \* user-level store edits in one run
MaxNow == 1500         \* last wall-clock reading (ms)
MaxEngineTime == 1     \* last instant (s) the engine clock advances to
MaxNormalize == 2      \* times toIso8601 is applied to one text in a row
MaxLayers == 3         \* layers a config may come to hold
MaxCalls == 2          \* calls of createDefaultCesiumConfig in one run
MaxRows == 3           \* rows of one query result

\* --------------------------------------------------------------- constants
THROTTLE_MS == 500
TICK_HZ == 60          \* frames, and so ticks, per second
SECOND_MS == 1000
DEFAULT_MULTIPLIER == 1
StartNow == 1000       \* Date.now() when the program starts (ms since epoch)
TickGaps == {499, 500}   \* wall-clock time that may pass between events

\* ------------------------------------------------------------------- texts
Undefined == <<"#undefined">>

DigitChars == <<"0", "1", "2", "3", "4", "5", "6", "7", "8", "9">>

IsDigit(c) == \E i \in 1..10 : DigitChars[i] = c

DigitVal(c) == (CHOOSE i \in 1..10 : DigitChars[i] = c) - 1

\* String.prototype.includes(c, from): from is a 0-based position
Includes(s, c, from) == \E i \in (from + 1)..Len(s) : s[i] = c

EndsWith(s, c) == Len(s) > 0 /\ s[Len(s)] = c

\* variant: String.prototype.replaceAll
ReplaceAll(s, a, b) == [i \in 1..Len(s) |-> IF s[i] = a THEN b ELSE s[i]]

\* String.prototype.replace(a, b) with a string pattern: first match only
ReplaceFirst(s, a, b) ==
    IF ~Includes(s, a, 0) THEN s
    ELSE LET k == CHOOSE i \in 1..Len(s) :
                      s[i] = a /\ \A j \in 1..(i - 1) : s[j] /= a
         IN [i \in 1..Len(s) |-> IF i = k THEN b ELSE s[i]]

\* variant: a Z is appended to every text without a T
toIso8601AlwaysZ(dateStr) ==
    IF Includes(dateStr, "T", 0) THEN dateStr
    ELSE Append(ReplaceFirst(dateStr, " ", "T"), "Z")

\* variant: no test for a T
toIso8601NoShortcut(dateStr) ==
    LET normalized == ReplaceFirst(dateStr, " ", "T")
    IN IF /\ ~EndsWith(normalized, "Z")
          /\ ~Includes(normalized, "+", 0)
          /\ ~Includes(normalized, "-", 11)
       THEN Append(normalized, "Z")
       ELSE normalized

toIso8601(dateStr) ==
    IF Includes(dateStr, "T", 0) THEN dateStr
    ELSE LET normalized == ReplaceFirst(dateStr, " ", "T")
         IN IF /\ ~EndsWith(normalized, "Z")
               /\ ~Includes(normalized, "+", 0)
               /\ ~Includes(normalized, "-", 11)
            THEN Append(normalized, "Z")
            ELSE normalized

\* JS truthiness of an optional string: undefined and "" are falsy
Truthy(t) == t /= Undefined /\ t /= <<>>

\* ---------------------------------------------- the engine's time type
TwoDigits(s, i) == DigitVal(s[i]) * 10 + DigitVal(s[i + 1])

\* "dddd-dd-dd"
IsCalendarDate(s) ==
    /\ Len(s) = 10
    /\ \A i \in {1, 2, 3, 4, 6, 7, 9, 10} : IsDigit(s[i])
    /\ s[5] = "-" /\ s[8] = "-"

\* "dd:dd:dd"
IsClockTime(s) ==
    /\ Len(s) = 8
    /\ \A i \in {1, 2, 4, 5, 7, 8} : IsDigit(s[i])
    /\ s[3] = ":" /\ s[6] = ":"

\* "", "Z", "+dd:dd", "-dd:dd"
IsUtcOffset(s) ==
    \/ s = <<>>
    \/ s = <<"Z">>
    \/ /\ Len(s) = 6
       /\ s[1] \in {"+", "-"}
       /\ \A i \in {2, 3, 5, 6} : IsDigit(s[i])
       /\ s[4] = ":"

OffsetSeconds(s) ==
    IF Len(s) = 6
    THEN (IF s[1] = "+" THEN 1 ELSE -1) * (TwoDigits(s, 2) * 3600 + TwoDigits(s, 5) * 60)
    ELSE 0

\* months are counted as 31 days each; the year is not part of the instant
DateSeconds(s) == ((TwoDigits(s, 6) - 1) * 31 + (TwoDigits(s, 9) - 1)) * 86400

TimeSeconds(s) == TwoDigits(s, 1) * 3600 + TwoDigits(s, 4) * 60 + TwoDigits(s, 7)

\* JulianDate.fromIso8601: <<instant>> when the text parses, <<>> when the
\* call throws.  The text is split at its first T; the date alone is a
\* valid text, a time must be followed by nothing, Z or a numeric offset.
fromIso8601(s) ==
    IF ~Includes(s, "T", 0)
    THEN IF IsCalendarDate(s) THEN <<DateSeconds(s)>> ELSE <<>>
    ELSE LET k == CHOOSE i \in 1..Len(s) :
                      s[i] = "T" /\ \A j \in 1..(i - 1) : s[j] /= "T"
             date == SubSeq(s, 1, k - 1)
             rest == SubSeq(s, k + 1, Len(s))
         IN IF /\ IsCalendarDate(date)
               /\ Len(rest) >= 8
               /\ IsClockTime(SubSeq(rest, 1, 8))
               /\ IsUtcOffset(SubSeq(rest, 9, Len(rest)))
            THEN <<DateSeconds(date) + TimeSeconds(SubSeq(rest, 1, 8))
                    - OffsetSeconds(SubSeq(rest, 9, Len(rest)))>>
            ELSE <<>>

Throws(r) == r = <<>>

TwoChars(n) == <<DigitChars[(n \div 10) + 1], DigitChars[(n % 10) + 1]>>

\* JulianDate.toIso8601 of an instant of the model's year
JulianToIso8601(t) ==
    <<"2", "0", "2", "4", "-">>
    \o TwoChars((t \div (31 * 86400)) + 1) \o <<"-">>
    \o TwoChars(((t \div 86400) % 31) + 1) \o <<"T">>
    \o TwoChars((t % 86400) \div 3600) \o <<":">>
    \o TwoChars((t % 3600) \div 60) \o <<":">>
    \o TwoChars(t % 60) \o <<"Z">>

\* ------------------------------------------------------------ the state
VARIABLES
    now,      \* Date.now()
    configs,  \* the config objects of the module: DEFAULT_CESIUM_CONFIG, which
              \* createDefaultCesiumConfig hands out, by the name that refers to it
    store,    \* state.cesium: viewer, config.clock, config.camera, isAnimating
    engine,   \* the engine handles (Cesium viewers) created so far
    hook,     \* the mounted CesiumViewerWrapper and its useClockSync refs and deps
    edits,    \* user-level store calls made so far
    last      \* the operation that produced this state: mount, commit, unmount,
              \* tick (with the viewer it ran for), or "other"

vars == <<now, configs, store, engine, hook, edits, last>>

NoViewer == 0
Handles == 1..MaxViewers

ClockRanges == {"UNBOUNDED", "CLAMPED", "LOOP_STOP"}

\* variant: CLAMPED and LOOP_STOP are given the same engine value
ClockRangeCollapsed ==
    [r \in ClockRanges |-> IF r = "UNBOUNDED" THEN 0 ELSE 1]

\* ClockRange.UNBOUNDED, ClockRange.CLAMPED, ClockRange.LOOP_STOP
CLOCK_RANGE_MAP ==
    [r \in ClockRanges |->
        CASE r = "UNBOUNDED" -> 0 [] r = "CLAMPED" -> 1 [] r = "LOOP_STOP" -> 2]

ClockFields == {"startTime", "stopTime", "currentTime"}

\* the timestamp texts a user edit may write
TextT == JulianToIso8601(1)
TextSpace ==
    <<"2", "0", "2", "4", "-", "0", "1", "-", "0", "1", " ",
      "0", "0", ":", "0", "0", ":", "0", "2">>
TextDate == <<"2", "0", "2", "4", "-", "0", "1", "-", "0", "2">>
TextBad == <<"b", "a", "d">>

\* camera positions: 0 is the configured default, 1 is where a flight ends
CameraPositions == {1}

DEFAULT_CLOCK ==
    [startTime |-> Undefined, stopTime |-> Undefined, currentTime |-> Undefined,
     multiplier |-> DEFAULT_MULTIPLIER, shouldAnimate |-> FALSE,
     clockRange |-> "LOOP_STOP"]

\* the clock of the example application's store
EXAMPLE_CLOCK ==
    [startTime |-> JulianToIso8601(0),
     stopTime |-> <<"2", "0", "2", "4", "-", "1", "2", "-", "3", "1", "T",
                    "2", "3", ":", "5", "9", ":", "5", "9", "Z">>,
     currentTime |-> JulianToIso8601(0),
     multiplier |-> 86400, shouldAnimate |-> FALSE, clockRange |-> "LOOP_STOP"]

\* the layer of the example application's store
EXAMPLE_LAYER == [id |-> "earthquakes", type |-> "sql-entities", visible |-> TRUE]

\* the object literal DEFAULT_CESIUM_CONFIG.cesium, as the module is loaded
DEFAULT_CESIUM_CONFIG ==
    [camera |-> 0, clock |-> DEFAULT_CLOCK, layers |-> <<>>, showTimeline |-> TRUE]

\* the config of the example application's store
EXAMPLE_CONFIG ==
    [camera |-> 0, clock |-> EXAMPLE_CLOCK, layers |-> <<EXAMPLE_LAYER>>,
     showTimeline |-> FALSE]

\* the config objects when the module has been loaded and nothing has run
ConfigRefs == {"DEFAULT_CESIUM_CONFIG"}

LoadedConfigs == [r \in ConfigRefs |-> DEFAULT_CESIUM_CONFIG]

\* createDefaultCesiumConfig(): the object it returns, and the objects after
\* the call
createDefaultCesiumConfig(cfgs) == [ref |-> "DEFAULT_CESIUM_CONFIG", configs |-> cfgs]

\* no initialConfig argument
NoConfig == [none |-> TRUE]

\* createCesiumSlice(initialConfig): the state before any component mounts
createCesiumSlice(cfgs, initialConfig) ==
    LET config == IF initialConfig = NoConfig
                  THEN cfgs[createDefaultCesiumConfig(cfgs).ref]
                  ELSE initialConfig
    IN [viewer |-> NoViewer, clock |-> config.clock, camera |-> config.camera,
        showTimeline |-> config.showTimeline, layers |-> config.layers,
        isAnimating |-> config.clock.shouldAnimate,
        selectedEntity |-> NoViewer, isLoadingData |-> FALSE]

\* a viewer as the engine creates it, before the bridge has touched it
NewViewer(timeline, camera) ==
    [phase |-> "alive",
     clock |-> [startTime |-> 0, stopTime |-> 86400, currentTime |-> 0,
                multiplier |-> 1, shouldAnimate |-> FALSE, clockRange |-> 0],
     onTick |-> 0, moveEnd |-> 0, timeline |-> timeline,
     zooms |-> 0, zoomArgs |-> <<>>, camera |-> camera]

Unborn == [phase |-> "unborn"]

\* a destroyed viewer: only its event listeners can still be told apart
Destroyed(vw) == [phase |-> "destroyed", onTick |-> vw.onTick, moveEnd |-> vw.moveEnd]

Alive(eng, v) == eng[v].phase = "alive"

\* the refs and effect dependencies of an unmounted wrapper
HookUnmounted ==
    [mounted |-> FALSE, lastSyncRef |-> 0, viewerInstanceRef |-> NoViewer,
     depViewer |-> NoViewer, clockStale |-> FALSE,
     zoomStart |-> Undefined, zoomStop |-> Undefined, tickSub |-> NoViewer]

\* the last tick-originated store write of the run: the wall-clock time it was
\* made at, the viewer whose tick made it, and whether the wrapper mounted now
\* is the one that made it
NoSync == [at |-> 0, by |-> NoViewer, own |-> FALSE]

Began(op) == [op |-> op, h |-> NoViewer, threw |-> FALSE, sync |-> NoSync]

Quiet(op) == [op |-> op, h |-> NoViewer, threw |-> FALSE, sync |-> last.sync]

\* the wrapper that made the last write, if any, is gone
Disowned(op, threw) ==
    [op |-> op, h |-> NoViewer, threw |-> threw,
     sync |-> [last.sync EXCEPT !.own = FALSE]]

Init ==
    /\ now = StartNow
    /\ configs = LoadedConfigs
    /\ store \in {createCesiumSlice(LoadedConfigs, NoConfig),
                  createCesiumSlice(LoadedConfigs, EXAMPLE_CONFIG)}
    /\ engine = [h \in Handles |-> Unborn]
    /\ hook = HookUnmounted
    /\ edits = 0
    /\ last = Began("init")

\* ------------------------------------------------- the store's actions
\* variant: the partial is laid over the default clock, not over the current one
MergeOverDefaults(clock, partial) ==
    [f \in DOMAIN clock |->
        IF f \in DOMAIN partial THEN partial[f] ELSE DEFAULT_CLOCK[f]]

\* {...draft.cesium.config.clock, ...clock}
Merge(clock, partial) ==
    [f \in DOMAIN clock |-> IF f \in DOMAIN partial THEN partial[f] ELSE clock[f]]

setClockConfig(st, partial) == [st EXCEPT !.clock = Merge(st.clock, partial)]

toggleAnimation(st) ==
    LET nextAnimating == ~st.isAnimating
    IN [st EXCEPT !.isAnimating = nextAnimating,
                  !.clock.shouldAnimate = nextAnimating]

\* variant: the action stores a fresh clock object that holds the new time
setCurrentTimeReplacing(st, isoString) ==
    [st EXCEPT !.clock = [DEFAULT_CLOCK EXCEPT !.currentTime = isoString]]

setCurrentTime(st, isoString) == [st EXCEPT !.clock.currentTime = isoString]

setViewer(st, viewer) == [st EXCEPT !.viewer = viewer]

\* draft.cesium.config.layers.push(layer)
addLayer(st, layer) == [st EXCEPT !.layers = Append(@, layer)]

\* layers.filter((l) => l.id !== id)
removeLayer(st, id) ==
    [st EXCEPT !.layers = SelectSeq(@, LAMBDA l : l.id /= id)]

\* layers.find((l) => l.id === id): the position of the first match, 0 if none
FindLayer(layers, id) ==
    IF \E k \in 1..Len(layers) : layers[k].id = id
    THEN CHOOSE k \in 1..Len(layers) :
             layers[k].id = id /\ \A j \in 1..(k - 1) : layers[j].id /= id
    ELSE 0

\* Object.assign(layer, updates)
ObjectAssign(layer, updates) ==
    [f \in DOMAIN layer |-> IF f \in DOMAIN updates THEN updates[f] ELSE layer[f]]

updateLayer(st, id, updates) ==
    LET k == FindLayer(st.layers, id)
    IN IF k = 0 THEN st
       ELSE [st EXCEPT !.layers[k] = ObjectAssign(@, updates)]

toggleLayerVisibility(st, id) ==
    LET k == FindLayer(st.layers, id)
    IN IF k = 0 THEN st
       ELSE [st EXCEPT !.layers[k].visible = ~@]

\* saveCameraPosition: copies the viewer's camera into the config
saveCameraPosition(st, eng) ==
    IF st.viewer = NoViewer THEN st
    ELSE IF Alive(eng, st.viewer) THEN [st EXCEPT !.camera = eng[st.viewer].camera]
    ELSE st

\* variant: the flight is run on whatever viewer is alive, not on the store's
MoveAnyCamera(st, eng, dest) ==
    [h \in Handles |->
        IF Alive(eng, h) THEN [eng[h] EXCEPT !.camera = dest] ELSE eng[h]]

\* flyTo / zoomToFit: the engines after the viewer's camera moved to dest
MoveViewerCamera(st, eng, dest) ==
    IF st.viewer = NoViewer THEN eng
    ELSE IF Alive(eng, st.viewer) THEN [eng EXCEPT ![st.viewer].camera = dest]
    ELSE eng

\* whether a store update hands the hook a new config.clock object
\* (immer keeps the object when nothing in it changed)
Stale(h, changed) == h.mounted /\ (h.clockStale \/ changed)

\* ------------------------------------------------ Cesium -> store (tick)
\* onTick of the bridge: the ref and the store after one listener call
\* variants of the throttle test: one millisecond short, and inclusive
ThrottleOffByOne(elapsed) == elapsed < THROTTLE_MS - 1

ThrottleInclusive(elapsed) == elapsed <= THROTTLE_MS

ThrottleDiscards(elapsed) == elapsed < THROTTLE_MS

\* variant: an accepted tick does not record when it was accepted
onTickForgetful(lastSync, st, engineTime) ==
    IF ThrottleDiscards(now - lastSync)
    THEN [lastSyncRef |-> lastSync, store |-> st]
    ELSE [lastSyncRef |-> lastSync,
          store |-> setCurrentTime(st, JulianToIso8601(engineTime))]

\* variant: a discarded tick restarts the window (a debounce, not a throttle)
onTickDebouncing(lastSync, st, engineTime) ==
    IF ThrottleDiscards(now - lastSync)
    THEN [lastSyncRef |-> now, store |-> st]
    ELSE [lastSyncRef |-> now,
          store |-> setCurrentTime(st, JulianToIso8601(engineTime))]

onTick(lastSync, st, engineTime) ==
    IF ThrottleDiscards(now - lastSync)
    THEN [lastSyncRef |-> lastSync, store |-> st]
    ELSE [lastSyncRef |-> now,
          store |-> setCurrentTime(st, JulianToIso8601(engineTime))]

\* Event.raiseEvent: every attached listener is called in turn
RECURSIVE RaiseOnTick(_, _, _, _)
RaiseOnTick(n, lastSync, st, engineTime) ==
    IF n = 0 THEN [lastSyncRef |-> lastSync, store |-> st]
    ELSE LET r == onTick(lastSync, st, engineTime)
         IN RaiseOnTick(n - 1, r.lastSyncRef, r.store, engineTime)

\* variants of the cleanup: without the isDestroyed() test, and without
\* the removal
TickCleanupUnguarded(eng, v) == [eng EXCEPT ![v].onTick = eng[v].onTick - 1]

TickCleanupNever(eng, v) == eng

\* cleanup of the tick effect for the viewer v it subscribed to
TickCleanup(eng, v) ==
    IF eng[v].phase /= "destroyed"
    THEN [eng EXCEPT ![v].onTick = eng[v].onTick - 1]
    ELSE eng

\* ---------------------------------------------- store -> Cesium (config)
\* one timestamp field: parsed through toIso8601, a failure is skipped
AssignTime(old, text) ==
    IF Truthy(text)
    THEN LET r == fromIso8601(toIso8601(text))
         IN IF Throws(r) THEN old ELSE r[1]
    ELSE old

\* variant: the earlier revision (hooks/useClockSync.ts), where a timestamp
\* that does not parse aborts the assignments that follow it
applyClockConfigAborting(clock, config) ==
    LET bad(f) == Truthy(config[f]) /\ Throws(fromIso8601(toIso8601(config[f])))
        c1 == [clock EXCEPT !.startTime = AssignTime(@, config.startTime)]
        c2 == [c1 EXCEPT !.stopTime = AssignTime(@, config.stopTime)]
        c3 == [c2 EXCEPT !.currentTime = AssignTime(@, config.currentTime)]
    IN IF bad("startTime") THEN clock
       ELSE IF bad("stopTime") THEN c1
       ELSE IF bad("currentTime") THEN c2
       ELSE [c3 EXCEPT !.multiplier = config.multiplier,
                       !.shouldAnimate = config.shouldAnimate,
                       !.clockRange = CLOCK_RANGE_MAP[config.clockRange]]

\* variant: the multiplier is scaled by the config's instead of replaced
applyClockConfigScaling(clock, config) ==
    [startTime |-> AssignTime(clock.startTime, config.startTime),
     stopTime |-> AssignTime(clock.stopTime, config.stopTime),
     currentTime |-> AssignTime(clock.currentTime, config.currentTime),
     multiplier |-> clock.multiplier * config.multiplier,
     shouldAnimate |-> config.shouldAnimate,
     clockRange |-> CLOCK_RANGE_MAP[config.clockRange]]

applyClockConfigToViewer(clock, config) ==
    [startTime |-> AssignTime(clock.startTime, config.startTime),
     stopTime |-> AssignTime(clock.stopTime, config.stopTime),
     currentTime |-> AssignTime(clock.currentTime, config.currentTime),
     multiplier |-> config.multiplier,
     shouldAnimate |-> config.shouldAnimate,
     clockRange |-> CLOCK_RANGE_MAP[config.clockRange]]

\* the timeline zoom effect on viewer record vw
ZoomEffect(vw, startTime, stopTime) ==
    IF ~Truthy(startTime) \/ ~Truthy(stopTime) \/ ~vw.timeline THEN vw
    ELSE LET startJd == fromIso8601(toIso8601(startTime))
             stopJd == fromIso8601(toIso8601(stopTime))
         IN IF Throws(startJd) \/ Throws(stopJd) THEN vw
            ELSE [vw EXCEPT !.zooms = vw.zooms + 1,
                            !.zoomArgs = <<startJd[1], stopJd[1]>>]

\* clockProps of the wrapper: JulianDate.fromIso8601 on the raw text, while
\* rendering (the props go to Resium's <Clock>, which is outside this model)
ClockPropsThrows(config) ==
    \E f \in ClockFields : Truthy(config[f]) /\ Throws(fromIso8601(config[f]))

\* --------------------------------------------- the hook's three effects
\* React runs an effect on the first commit and when a dependency changed
ViewerChanged(first) == first \/ store.viewer /= hook.depViewer

\* variant: the zoom effect depends on the whole clock config
ZoomOnEveryClockChange(first) == ViewerChanged(first) \/ hook.clockStale

ZoomDepsChanged(first) ==
    \/ ViewerChanged(first)
    \/ store.clock.startTime /= hook.zoomStart
    \/ store.clock.stopTime /= hook.zoomStop

AfterTickEffect(first) ==
    IF ~ViewerChanged(first) THEN engine
    ELSE LET cleaned == IF hook.tickSub /= NoViewer
                        THEN TickCleanup(engine, hook.tickSub) ELSE engine
         IN IF store.viewer = NoViewer THEN cleaned
            ELSE [cleaned EXCEPT ![store.viewer].onTick = cleaned[store.viewer].onTick + 1]

AfterClockEffect(eng, first) ==
    IF (ViewerChanged(first) \/ hook.clockStale) /\ store.viewer /= NoViewer
    THEN IF Alive(eng, store.viewer)
         THEN [eng EXCEPT ![store.viewer].clock =
                  applyClockConfigToViewer(eng[store.viewer].clock, store.clock)]
         ELSE eng
    ELSE eng

AfterZoomEffect(eng, first) ==
    IF ZoomDepsChanged(first) /\ store.viewer /= NoViewer
    THEN IF Alive(eng, store.viewer)
         THEN [eng EXCEPT ![store.viewer] =
                  ZoomEffect(eng[store.viewer], store.clock.startTime,
                             store.clock.stopTime)]
         ELSE eng
    ELSE eng

\* variant: subscribing to another viewer starts the throttle afresh
RunEffectsResetting(first) ==
    /\ engine' = AfterZoomEffect(AfterClockEffect(AfterTickEffect(first), first), first)
    /\ hook' = [hook EXCEPT !.mounted = TRUE,
                            !.depViewer = store.viewer,
                            !.clockStale = FALSE,
                            !.zoomStart = store.clock.startTime,
                            !.zoomStop = store.clock.stopTime,
                            !.lastSyncRef = IF ViewerChanged(first) THEN 0
                                            ELSE hook.lastSyncRef,
                            !.tickSub = IF ViewerChanged(first) THEN store.viewer
                                        ELSE hook.tickSub]

RunEffects(first) ==
    /\ engine' = AfterZoomEffect(AfterClockEffect(AfterTickEffect(first), first), first)
    /\ hook' = [hook EXCEPT !.mounted = TRUE,
                            !.depViewer = store.viewer,
                            !.clockStale = FALSE,
                            !.zoomStart = store.clock.startTime,
                            !.zoomStop = store.clock.stopTime,
                            !.tickSub = IF ViewerChanged(first) THEN store.viewer
                                        ELSE hook.tickSub]

\* every cleanup of the wrapper: its own unmount effect and the tick effect's
WrapperCleanup(eng) ==
    LET v == hook.viewerInstanceRef
        e1 == IF v /= NoViewer /\ eng[v].phase /= "destroyed"
              THEN [eng EXCEPT ![v].moveEnd = eng[v].moveEnd - 1] ELSE eng
    IN IF hook.tickSub /= NoViewer THEN TickCleanup(e1, hook.tickSub) ELSE e1

\* variant: the unmount cleanup leaves the viewer in the store
TeardownKeepingViewer ==
    /\ engine' = WrapperCleanup(engine)
    /\ store' = store
    /\ hook' = HookUnmounted

\* the wrapper goes away: its cleanups run and the store forgets the viewer
\* (Resium's <Viewer> destroys the viewer itself afterwards: DestroyViewer)
Teardown ==
    /\ engine' = WrapperCleanup(engine)
    /\ store' = setViewer(store, NoViewer)
    /\ hook' = HookUnmounted

\* -------------------------------------------------------------- actions
\* the partial clock configs a user edit passes to setClockConfig
ClockEdits ==
    {[startTime |-> t] : t \in {TextDate, TextBad}}
    \cup {[stopTime |-> t] : t \in {TextT, TextDate, TextSpace}}
    \cup {[currentTime |-> t] : t \in {TextT, TextDate}}
    \cup {[startTime |-> JulianToIso8601(0), stopTime |-> t] : t \in {TextT, TextDate}}
    \cup {[multiplier |-> 2], [shouldAnimate |-> TRUE], [clockRange |-> "CLAMPED"]}

\* CesiumViewerWrapper mounts: first render, then the first run of the effects
MountWrapper ==
    /\ ~hook.mounted
    /\ IF ClockPropsThrows(store.clock)
       THEN /\ last' = [Quiet("mount") EXCEPT !.threw = TRUE]
            /\ UNCHANGED <<engine, hook>>
       ELSE /\ RunEffects(TRUE)
            /\ last' = Quiet("mount")
    /\ UNCHANGED <<configs, now, store, edits>>

\* a re-render after the store changed, and the effects whose deps changed;
\* an error thrown while rendering unmounts the component
Commit ==
    /\ hook.mounted
    /\ store.viewer /= hook.depViewer \/ hook.clockStale
    /\ IF hook.clockStale /\ ClockPropsThrows(store.clock)
       THEN /\ Teardown
            /\ last' = Disowned("commit", TRUE)
       ELSE /\ RunEffects(FALSE)
            /\ last' = [Quiet("commit") EXCEPT !.h = store.viewer]
            /\ UNCHANGED store
    /\ UNCHANGED <<configs, now, edits>>

\* CesiumViewerWrapper unmounts: every effect's cleanup runs
Unmount ==
    /\ hook.mounted
    /\ Teardown
    /\ last' = Disowned("unmount", FALSE)
    /\ UNCHANGED <<configs, now, edits>>

\* handleViewerRef with the viewer Resium has just created (<Viewer
\* timeline={showTimeline}>: the viewer has a timeline when the config asks).
\* Resium owns one viewer per <Viewer>: an earlier one is destroyed by then.
HandleViewerRef(h) ==
    /\ hook.mounted
    /\ engine[h].phase = "unborn"
    /\ \A g \in Handles : g < h => engine[g].phase = "destroyed"
    /\ hook.viewerInstanceRef /= h
    /\ hook' = [hook EXCEPT !.viewerInstanceRef = h]
    /\ store' = setViewer(store, h)
    /\ engine' = [engine EXCEPT
                    ![h] = [NewViewer(store.showTimeline, store.camera)
                               EXCEPT !.moveEnd = 1]]
    /\ last' = [Quiet("handleViewerRef") EXCEPT !.h = h]
    /\ UNCHANGED <<configs, now, edits>>

\* the engine destroys a viewer (render context lost, Resium unmounting)
DestroyViewer(h) ==
    /\ engine[h].phase = "alive"
    /\ engine' = [engine EXCEPT ![h] = Destroyed(engine[h])]
    /\ last' = Quiet("other")
    /\ UNCHANGED <<configs, now, store, hook, edits>>

\* one frame of a live viewer: Clock.tick advances the time and raises onTick
EngineTick(h, adv) ==
    /\ engine[h].phase = "alive"
    /\ adv = 1 => /\ engine[h].clock.shouldAnimate
                  /\ engine[h].clock.currentTime < MaxEngineTime
    /\ LET t == engine[h].clock.currentTime + adv
           r == RaiseOnTick(engine[h].onTick, hook.lastSyncRef, store, t)
       IN /\ engine' = [engine EXCEPT ![h].clock.currentTime = t]
          /\ store' = r.store
          /\ hook' = [hook EXCEPT !.lastSyncRef = r.lastSyncRef,
                                  !.clockStale = Stale(hook, r.store /= store)]
          /\ last' = [op |-> "tick", h |-> h, threw |-> FALSE,
                      sync |-> IF r.lastSyncRef /= hook.lastSyncRef
                               THEN [at |-> now, by |-> h, own |-> TRUE]
                               ELSE last.sync]
    /\ UNCHANGED <<configs, now, edits>>

\* wall-clock time passes
AdvanceTime(dt) ==
    /\ now + dt <= MaxNow
    /\ now' = now + dt
    /\ last' = Quiet("other")
    /\ UNCHANGED <<configs, store, engine, hook, edits>>

\* camera.moveEnd of a live viewer: the listener the wrapper attached
CameraMoveEnd(h) ==
    /\ engine[h].phase = "alive"
    /\ engine[h].moveEnd > 0
    /\ store' = saveCameraPosition(store, engine)
    /\ last' = Quiet("other")
    /\ UNCHANGED <<configs, now, engine, hook, edits>>

UserSetClockConfig(partial) ==
    /\ edits < MaxEdits
    /\ edits' = edits + 1
    /\ store' = setClockConfig(store, partial)
    /\ hook' = [hook EXCEPT !.clockStale = Stale(hook, TRUE)]
    /\ last' = [op |-> "setClockConfig", h |-> NoViewer, threw |-> FALSE,
                sync |-> last.sync, arg |-> partial]
    /\ UNCHANGED <<configs, now, engine>>

UserToggleAnimation ==
    /\ edits < MaxEdits
    /\ edits' = edits + 1
    /\ store' = toggleAnimation(store)
    /\ hook' = [hook EXCEPT !.clockStale = Stale(hook, TRUE)]
    /\ last' = Quiet("other")
    /\ UNCHANGED <<configs, now, engine>>

UserSaveCameraPosition ==
    /\ edits < MaxEdits
    /\ edits' = edits + 1
    /\ store' = saveCameraPosition(store, engine)
    /\ last' = Quiet("other")
    /\ UNCHANGED <<configs, now, engine, hook>>

UserFlyTo(dest) ==
    /\ edits < MaxEdits
    /\ edits' = edits + 1
    /\ engine' = MoveViewerCamera(store, engine, dest)
    /\ last' = Quiet("other")
    /\ UNCHANGED <<configs, now, store, hook>>

UserZoomToFit(dest) ==
    /\ edits < MaxEdits
    /\ edits' = edits + 1
    /\ engine' = MoveViewerCamera(store, engine, dest)
    /\ last' = Quiet("other")
    /\ UNCHANGED <<configs, now, store, hook>>

Next ==
    \/ MountWrapper
    \/ Commit
    \/ Unmount
    \/ \E h \in Handles : HandleViewerRef(h)
    \/ \E h \in Handles : DestroyViewer(h)
    \/ \E h \in Handles, adv \in {0, 1} : EngineTick(h, adv)
    \/ \E dt \in TickGaps : AdvanceTime(dt)
    \/ \E h \in Handles : CameraMoveEnd(h)
    \/ \E partial \in ClockEdits : UserSetClockConfig(partial)
    \/ UserToggleAnimation
    \/ UserSaveCameraPosition
    \/ \E dest \in CameraPositions : UserFlyTo(dest)
    \/ \E dest \in CameraPositions : UserZoomToFit(dest)

Spec == Init /\ [][Next]_vars

\* ------------------------------- applyClockConfigToViewer on its own
\* the function is given any config the schema admits, whatever the wrapper
\* would make of it
ApplyTexts == {Undefined, TextSpace, TextBad}

ApplyConfigs ==
    [startTime : ApplyTexts, stopTime : ApplyTexts,
     currentTime : {Undefined, TextT, TextBad},
     multiplier : {DEFAULT_MULTIPLIER, 2}, shouldAnimate : BOOLEAN,
     clockRange : ClockRanges]

InitApply ==
    /\ now = StartNow
    /\ configs = LoadedConfigs
    /\ store \in {createCesiumSlice(LoadedConfigs,
                                    [DEFAULT_CESIUM_CONFIG EXCEPT !.clock = c]) :
                     c \in ApplyConfigs}
    /\ engine = [h \in Handles |-> IF h = 1 THEN NewViewer(TRUE, 0) ELSE Unborn]
    /\ hook = HookUnmounted
    /\ edits = 0
    /\ last = Began("init")

\* n tells a first application from one that repeats the one before it
ApplyClockConfig(h) ==
    /\ Alive(engine, h)
    /\ engine' = [engine EXCEPT
                    ![h].clock = applyClockConfigToViewer(engine[h].clock, store.clock)]
    /\ last' = [op |-> "apply", h |-> h, threw |-> FALSE, sync |-> last.sync,
                n |-> IF last.op = "apply" /\ last.h = h THEN 2 ELSE 1]
    /\ UNCHANGED <<configs, now, store, hook, edits>>

NextApply ==
    \/ \E h \in Handles : ApplyClockConfig(h)
    \/ \E partial \in ClockEdits : UserSetClockConfig(partial)

SpecApply == InitApply /\ [][NextApply]_vars

\* ------------------------------------------- a train of engine ticks
\* The wrapper is mounted, its viewer is stored, the first commit is done and
\* the animation runs; the engine then ticks on a fixed schedule.  Gap 0 is
\* the 60 Hz frame schedule over one second, the other gaps are two ticks
\* that far apart.  A lead is the time since a tick accepted before the train.
TrainGaps == {0, THROTTLE_MS - 1, THROTTLE_MS, THROTTLE_MS + 1}

TrainLeads == {0, 1, THROTTLE_MS - 1}

TrainOffset(gap, k) == IF gap = 0 THEN (k * SECOND_MS) \div TICK_HZ ELSE k * gap

TrainLen(gap) == IF gap = 0 THEN TICK_HZ ELSE 2

\* the store once the viewer is set and the animation toggled on, and after
\* the tick accepted before the train when there was one
TrainStore(config, lead) ==
    LET st == setViewer(toggleAnimation(createCesiumSlice(LoadedConfigs, config)), 1)
    IN IF lead = 0 THEN st ELSE setCurrentTime(st, JulianToIso8601(0))

\* the viewer after handleViewerRef and the first run of the three effects
TrainViewer(config) ==
    LET st == TrainStore(config, 0)
        vw == NewViewer(st.showTimeline, st.camera)
    IN ZoomEffect([vw EXCEPT !.moveEnd = 1, !.onTick = 1,
                             !.clock = applyClockConfigToViewer(vw.clock, st.clock)],
                  st.clock.startTime, st.clock.stopTime)

InitTrain ==
    \E c \in {DEFAULT_CESIUM_CONFIG, EXAMPLE_CONFIG},
       gap \in TrainGaps, lead \in TrainLeads :
        /\ now = StartNow + lead
        /\ configs = LoadedConfigs
        /\ store = TrainStore(c, lead)
        /\ engine = [h \in Handles |->
                        IF h = 1 THEN TrainViewer(c) ELSE Unborn]
        /\ hook = [mounted |-> TRUE,
                   lastSyncRef |-> IF lead = 0 THEN 0 ELSE StartNow,
                   viewerInstanceRef |-> 1, depViewer |-> 1,
                   clockStale |-> lead /= 0,
                   zoomStart |-> c.clock.startTime, zoomStop |-> c.clock.stopTime,
                   tickSub |-> 1]
        /\ edits = 1
        /\ last = [op |-> "init", h |-> NoViewer, threw |-> FALSE,
                   gap |-> gap, lead |-> lead, ticks |-> 0, writes |-> 0]

\* one frame: the clock advances, onTick is raised, and the wall clock moves
\* on to the time of the next frame
TrainTick ==
    /\ last.ticks < TrainLen(last.gap)
    /\ LET h == store.viewer
           t == engine[h].clock.currentTime + 1
           r == RaiseOnTick(engine[h].onTick, hook.lastSyncRef, store, t)
           wrote == r.store /= store
       IN /\ engine' = [engine EXCEPT ![h].clock.currentTime = t]
          /\ store' = r.store
          /\ hook' = [hook EXCEPT !.lastSyncRef = r.lastSyncRef,
                                  !.clockStale = Stale(hook, r.store /= store)]
          /\ last' = [last EXCEPT !.op = "tick", !.h = h,
                                  !.ticks = last.ticks + 1,
                                  !.writes = last.writes + IF wrote THEN 1 ELSE 0]
    /\ now' = StartNow + last.lead + TrainOffset(last.gap, last.ticks + 1)
    /\ UNCHANGED <<configs, edits>>

NextTrain == TrainTick

SpecTrain == InitTrain /\ [][NextTrain]_vars

\* the engine raises onTick once per frame for as long as the viewer lives:
\* a frame that is due is rendered
SpecTrainFair == InitTrain /\ [][NextTrain]_vars /\ WF_vars(TrainTick)

\* ------------------------------------------- the layer list on its own
LayerIds == {"earthquakes", "faults"}

NewLayers == [id : LayerIds, type : {"sql-entities", "geojson"}, visible : BOOLEAN]

LayerUpdates ==
    {[visible |-> FALSE], [type |-> "czml"]} \cup {[id |-> i] : i \in LayerIds}

\* a slice whose config holds no layer, the example's one, or two, with
\* distinct ids
InitLayers ==
    /\ now = StartNow
    /\ configs = LoadedConfigs
    /\ store \in {createCesiumSlice(LoadedConfigs, NoConfig),
                  createCesiumSlice(LoadedConfigs, EXAMPLE_CONFIG),
                  createCesiumSlice(LoadedConfigs,
                      [EXAMPLE_CONFIG EXCEPT !.layers =
                          <<EXAMPLE_LAYER,
                            [id |-> "faults", type |-> "geojson", visible |-> FALSE]>>])}
    /\ engine = [h \in Handles |-> Unborn]
    /\ hook = HookUnmounted
    /\ edits = 0
    /\ last = Began("init")

UserAddLayer(layer) ==
    /\ Len(store.layers) < MaxLayers
    /\ store' = addLayer(store, layer)
    /\ last' = Quiet("addLayer")
    /\ UNCHANGED <<configs, now, engine, hook, edits>>

UserRemoveLayer(id) ==
    /\ store' = removeLayer(store, id)
    /\ last' = Quiet("removeLayer")
    /\ UNCHANGED <<configs, now, engine, hook, edits>>

UserUpdateLayer(id, updates) ==
    /\ store' = updateLayer(store, id, updates)
    /\ last' = Quiet("updateLayer")
    /\ UNCHANGED <<configs, now, engine, hook, edits>>

UserToggleLayerVisibility(id) ==
    /\ store' = toggleLayerVisibility(store, id)
    /\ last' = Quiet("toggleLayerVisibility")
    /\ UNCHANGED <<configs, now, engine, hook, edits>>

NextLayers ==
    \/ \E layer \in NewLayers : UserAddLayer(layer)
    \/ \E id \in LayerIds : UserRemoveLayer(id)
    \/ \E id \in LayerIds, updates \in LayerUpdates : UserUpdateLayer(id, updates)
    \/ \E id \in LayerIds : UserToggleLayerVisibility(id)

SpecLayers == InitLayers /\ [][NextLayers]_vars

\* ------------------------------------- the default config on its own
\* An application module calls createDefaultCesiumConfig, assigns the layers
\* and the clock of what it got (examples/cesium-app/src/store.ts), and
\* slices are created with and without an initialConfig.
STORE_TS_CLOCK == [EXAMPLE_CLOCK EXCEPT !.currentTime = Undefined]

AssignedClocks == {STORE_TS_CLOCK, EXAMPLE_CLOCK}

AssignedLayers ==
    {<<EXAMPLE_LAYER>>,
     <<EXAMPLE_LAYER, [id |-> "faults", type |-> "geojson", visible |-> FALSE]>>}

InitConfig ==
    /\ now = StartNow
    /\ configs = LoadedConfigs
    /\ store = createCesiumSlice(LoadedConfigs, NoConfig)
    /\ engine = [h \in Handles |-> Unborn]
    /\ hook = HookUnmounted
    /\ edits = 0
    /\ last = [op |-> "init", h |-> NoViewer, threw |-> FALSE,
               held |-> "none", returned |-> NoConfig, calls |-> 0,
               initial |-> FALSE]

\* const cesiumConfig = createDefaultCesiumConfig()
CallCreateDefaultCesiumConfig ==
    /\ last.calls < MaxCalls
    /\ LET r == createDefaultCesiumConfig(configs)
       IN /\ configs' = r.configs
          /\ last' = [last EXCEPT !.op = "createDefaultCesiumConfig",
                                  !.held = r.ref,
                                  !.returned = r.configs[r.ref],
                                  !.calls = last.calls + 1]
    /\ UNCHANGED <<now, store, engine, hook, edits>>

\* cesiumConfig.cesium.layers = [...]
AssignLayers(layers) ==
    /\ last.held /= "none"
    /\ configs' = [configs EXCEPT ![last.held].layers = layers]
    /\ last' = [last EXCEPT !.op = "assign"]
    /\ UNCHANGED <<now, store, engine, hook, edits>>

\* cesiumConfig.cesium.clock = {...}
AssignClock(clock) ==
    /\ last.held /= "none"
    /\ configs' = [configs EXCEPT ![last.held].clock = clock]
    /\ last' = [last EXCEPT !.op = "assign"]
    /\ UNCHANGED <<now, store, engine, hook, edits>>

\* createCesiumSlice(cesiumConfig), or createCesiumSlice()
CreateSlice(withConfig) ==
    /\ withConfig => last.held /= "none"
    /\ store' = createCesiumSlice(configs, IF withConfig THEN configs[last.held]
                                            ELSE NoConfig)
    /\ last' = [last EXCEPT !.op = "createCesiumSlice", !.initial = withConfig]
    /\ UNCHANGED <<now, configs, engine, hook, edits>>

NextConfig ==
    \/ CallCreateDefaultCesiumConfig
    \/ \E layers \in AssignedLayers : AssignLayers(layers)
    \/ \E clock \in AssignedClocks : AssignClock(clock)
    \/ \E withConfig \in BOOLEAN : CreateSlice(withConfig)

SpecConfig == InitConfig /\ [][NextConfig]_vars

\* ------------------------------------ useSqlToCesiumEntities on its own
\* A row is the value of its time column (Undefined when the row has none);
\* the longitude, latitude and the other columns go through Number and String
\* into fields no claim is about.  A descriptor is its id, its time and its
\* availability: <<start, stop>>, or <<>> when it has none.
RowTimes == {TextT, TextSpace, TextBad, Undefined}

RowLists == UNION {[1..n -> [time : RowTimes]] : n \in 0..MaxRows}

\* the rows argument: a list, or nothing (undefined, null)
RowInputs == {[given |-> TRUE, list |-> l] : l \in RowLists}
             \cup {[given |-> FALSE, list |-> <<>>]}

EntityLayers ==
    [id : {<<"e", "a", "r", "t", "h", "q", "u", "a", "k", "e", "s">>, <<"l", "1">>},
     mapsTime : BOOLEAN]

\* String(value)
StringOf(v) ==
    IF v = Undefined THEN <<"u", "n", "d", "e", "f", "i", "n", "e", "d">> ELSE v

\* an index as the template literal prints it
RECURSIVE Decimal(_)
Decimal(n) ==
    IF n < 10 THEN <<DigitChars[n + 1]>>
    ELSE Decimal(n \div 10) \o <<DigitChars[(n % 10) + 1]>>

\* stopJd: the parsed time of the last row, <<>> when there is none
StopJd(list, layerConfig) ==
    IF ~layerConfig.mapsTime THEN <<>>
    ELSE LET lastTimeStr == StringOf(list[Len(list)].time)
         IN IF Truthy(lastTimeStr) THEN fromIso8601(toIso8601(lastTimeStr))
            ELSE <<>>

\* the descriptor of row i (counted from 0)
Descriptor(row, i, stopJd, layerConfig) ==
    LET timeStr == IF layerConfig.mapsTime THEN toIso8601(StringOf(row.time))
                   ELSE Undefined
        startJd == IF Truthy(timeStr) /\ ~Throws(stopJd) THEN fromIso8601(timeStr)
                   ELSE <<>>
    IN [id |-> layerConfig.id \o <<"-">> \o Decimal(i),
        time |-> timeStr,
        availability |-> IF Throws(startJd) THEN <<>>
                         ELSE <<startJd[1], stopJd[1]>>]

\* variant: a row whose time does not parse is left out
useSqlToCesiumEntitiesSkipping(rows, layerConfig) ==
    IF ~rows.given \/ Len(rows.list) = 0 THEN <<>>
    ELSE LET stopJd == StopJd(rows.list, layerConfig)
             all == [i \in 1..Len(rows.list) |->
                        Descriptor(rows.list[i], i - 1, stopJd, layerConfig)]
         IN SelectSeq(all, LAMBDA d : d.time = Undefined
                                      \/ ~Throws(fromIso8601(d.time)))

useSqlToCesiumEntities(rows, layerConfig) ==
    IF ~rows.given \/ Len(rows.list) = 0 THEN <<>>
    ELSE LET stopJd == StopJd(rows.list, layerConfig)
         IN [i \in 1..Len(rows.list) |->
                Descriptor(rows.list[i], i - 1, stopJd, layerConfig)]

InitEntities ==
    /\ now = StartNow
    /\ configs = LoadedConfigs
    /\ store = createCesiumSlice(LoadedConfigs, NoConfig)
    /\ engine = [h \in Handles |-> Unborn]
    /\ hook = HookUnmounted
    /\ edits = 0
    /\ \E rows \in RowInputs, layerConfig \in EntityLayers :
          last = [op |-> "rows", h |-> NoViewer, threw |-> FALSE,
                  rows |-> rows, layerConfig |-> layerConfig, entities |-> <<>>]

\* the hook's memo is computed for the rows
ConvertRows ==
    /\ last.op = "rows"
    /\ last' = [last EXCEPT !.op = "useSqlToCesiumEntities",
                            !.entities = useSqlToCesiumEntities(last.rows,
                                                                last.layerConfig)]
    /\ UNCHANGED <<now, configs, store, engine, hook, edits>>

NextEntities == ConvertRows

SpecEntities == InitEntities /\ [][NextEntities]_vars

\* ------------------------------------------------ toIso8601 on its own
\* the texts are a date, a separator, a time and a zone, each possibly
\* missing or odd
IsoDates ==
    {<<"1", "9", "6", "7", "-", "0", "1", "-", "1", "5">>,
     <<"2", "0", "2", "4", "-", "0", "6", "-", "0", "1">>,
     <<"+", "1", "9", "6", "7", "-", "0", "1", "-", "1", "5">>,
     <<"b", "a", "d">>,
     <<>>}

IsoSeparators ==
    {<<" ">>,
     <<"T">>,
     <<>>,
     <<" ", " ">>}

IsoTimes ==
    {<<"0", "8", ":", "2", "3", ":", "0", "0">>,
     <<"1", "2", ":", "0", "0", ":", "0", "0">>,
     <<>>}

IsoZones ==
    {<<>>,
     <<"Z">>,
     <<"+", "0", "2", ":", "0", "0">>,
     <<"-", "0", "5", ":", "0", "0">>,
     <<" ", "U", "T", "C">>}

IsoInputs ==
    {d \o p \o t \o z : d \in IsoDates, p \in IsoSeparators,
                        t \in IsoTimes, z \in IsoZones}

InitIso ==
    /\ now = StartNow
    /\ configs = LoadedConfigs
    /\ store = createCesiumSlice(LoadedConfigs, NoConfig)
    /\ engine = [h \in Handles |-> Unborn]
    /\ hook = HookUnmounted
    /\ edits = 0
    /\ \E x \in IsoInputs :
          last = [op |-> "text", h |-> NoViewer, threw |-> FALSE,
                  input |-> x, output |-> x, applied |-> 0]

\* toIso8601 is applied to the text, then to its own result
Normalize ==
    /\ last.applied < MaxNormalize
    /\ last' = [last EXCEPT !.op = "toIso8601",
                            !.output = toIso8601(last.output),
                            !.applied = last.applied + 1]
    /\ UNCHANGED <<configs, now, store, engine, hook, edits>>

NextIso == Normalize

SpecIso == InitIso /\ [][NextIso]_vars

\* =============================================================== claims
\* a timestamp text the bridge can use: present, and parsed after toIso8601
Parses(text) == Truthy(text) /\ ~Throws(fromIso8601(toIso8601(text)))

Malformed(text) == Truthy(text) /\ Throws(fromIso8601(toIso8601(text)))

Instant(text) == fromIso8601(toIso8601(text))[1]

\* C1: a tick handler that runs less than 500 ms after the last accepted
\* tick changes neither the store's currentTime nor the last-sync timestamp,
\* so two ticks less than 500 ms apart make at most one store write.
C1_ThrottledTickIsDiscarded ==
    [][\A h \in Handles :
          (/\ last'.op = "tick" /\ last'.h = h
           /\ now - hook.lastSyncRef < THROTTLE_MS)
          => /\ store' = store
             /\ hook'.lastSyncRef = hook.lastSyncRef]_vars

\* a tick ran its listener inside the window and the engine's time, which
\* had moved on, was not written to the store
C1_Witness ==
    /\ last.op = "tick"
    /\ engine[last.h].phase = "alive" /\ engine[last.h].onTick > 0
    /\ hook.lastSyncRef > 0
    /\ now - hook.lastSyncRef < THROTTLE_MS
    /\ store.clock.currentTime /= JulianToIso8601(engine[last.h].clock.currentTime)

\* C2: a tick handler that runs 500 ms or more after the last accepted tick
\* sets the store's currentTime to the ISO text of the engine clock's time at
\* that tick and the last-sync timestamp to the wall-clock reading.
C2_AcceptedTickWritesStore ==
    [][\A h \in Handles :
          (/\ last'.op = "tick" /\ last'.h = h
           /\ engine[h].onTick > 0
           /\ now - hook.lastSyncRef >= THROTTLE_MS)
          => /\ store'.clock.currentTime =
                    JulianToIso8601(engine'[h].clock.currentTime)
             /\ hook'.lastSyncRef = now]_vars

\* a second tick was accepted, at least 500 ms after the program started,
\* and wrote the time the engine had advanced to
C2_Witness ==
    /\ last.op = "tick"
    /\ engine[last.h].phase = "alive" /\ engine[last.h].onTick > 0
    /\ hook.lastSyncRef = now /\ now >= StartNow + THROTTLE_MS
    /\ engine[last.h].clock.currentTime = 1
    /\ store.clock.currentTime = JulianToIso8601(1)

\* C3: whenever the store's clock config changed while a viewer is available,
\* the write path runs and afterwards the engine clock's multiplier and
\* shouldAnimate equal the config's, its clockRange is the mapped value, and
\* each of startTime/stopTime/currentTime that is present and parses has been
\* assigned to the engine clock.
C3_ConfigChangeReachesEngine ==
    [][(/\ last'.op = "commit"
        /\ hook.clockStale
        /\ store.viewer /= NoViewer /\ Alive(engine, store.viewer))
       => /\ ~last'.threw
          /\ Alive(engine', store.viewer)
          /\ LET c == engine'[store.viewer].clock
             IN /\ c.multiplier = store.clock.multiplier
                /\ c.shouldAnimate = store.clock.shouldAnimate
                /\ c.clockRange = CLOCK_RANGE_MAP[store.clock.clockRange]
                /\ \A f \in ClockFields :
                      Parses(store.clock[f]) => c[f] = Instant(store.clock[f])]_vars

\* C4: applying a clock config in which one timestamp is malformed leaves the
\* engine's previous value of that field untouched, still assigns the
\* timestamps that parse, multiplier, shouldAnimate and clockRange, and
\* completes (under SpecApply).
C4_MalformedFieldIsSkipped ==
    [][\A h \in Handles :
          (last'.op = "apply" /\ last'.h = h)
          => /\ ~last'.threw
             /\ LET old == engine[h].clock
                    c == engine'[h].clock
                IN /\ c.multiplier = store.clock.multiplier
                   /\ c.shouldAnimate = store.clock.shouldAnimate
                   /\ c.clockRange = CLOCK_RANGE_MAP[store.clock.clockRange]
                   /\ \A f \in ClockFields :
                         /\ Malformed(store.clock[f]) => c[f] = old[f]
                         /\ Parses(store.clock[f]) => c[f] = Instant(store.clock[f])]_vars

\* a config whose startTime is "bad" was applied to a fresh viewer: the
\* engine kept the startTime it was created with and took the stopTime, the
\* multiplier, shouldAnimate and the clockRange
C4_Witness ==
    /\ last.op = "apply"
    /\ store.clock.startTime = TextBad
    /\ store.clock.stopTime = TextSpace
    /\ store.clock.multiplier = 2 /\ store.clock.shouldAnimate
    /\ store.clock.clockRange = "CLAMPED"
    /\ LET c == engine[last.h].clock
       IN /\ c.startTime = NewViewer(TRUE, 0).clock.startTime
          /\ c.stopTime = 2
          /\ c.multiplier = 2 /\ c.shouldAnimate
          /\ c.clockRange = CLOCK_RANGE_MAP["CLAMPED"]

\* C5: no timestamp text, however malformed, in any timestamp field makes a
\* tick, a config application, a timeline zoom or the wrapper's computation
\* of its clock props throw.
C5_NoTimestampThrows == ~last.threw

\* C6: the timeline zoom is invoked only as a reaction to a change of
\* startTime or stopTime.
C6_ZoomOnlyOnBoundsChange ==
    [][\A h \in Handles :
          (/\ Alive(engine, h) /\ Alive(engine', h)
           /\ engine'[h].zooms > engine[h].zooms)
          => \/ store.clock.startTime /= hook.zoomStart
             \/ store.clock.stopTime /= hook.zoomStop]_vars

\* C6 as the code has it: the timeline zoom is invoked only in a commit whose
\* render sees a startTime, a stopTime or a viewer that differs from the
\* previous render's; store updates that change only currentTime (tick-driven
\* writes included), multiplier, shouldAnimate or clockRange never invoke it.
C6_ZoomOnlyOnBoundsOrViewerChange ==
    [][\A h \in Handles :
          (/\ Alive(engine, h) /\ Alive(engine', h)
           /\ engine'[h].zooms > engine[h].zooms)
          => /\ last'.op = "commit"
             /\ h = store.viewer
             /\ \/ store.viewer /= hook.depViewer
                \/ store.clock.startTime /= hook.zoomStart
                \/ store.clock.stopTime /= hook.zoomStop]_vars

\* a tick-driven write of currentTime was committed to a viewer with a
\* timeline and both bounds, and the viewer has still been zoomed only once
C6_Witness ==
    /\ last.op = "commit" /\ ~last.threw
    /\ store.viewer /= NoViewer /\ Alive(engine, store.viewer)
    /\ engine[store.viewer].timeline
    /\ Parses(store.clock.startTime) /\ Parses(store.clock.stopTime)
    /\ hook.lastSyncRef > 0
    /\ store.clock.currentTime /= Undefined
    /\ engine[store.viewer].zooms = 1

\* C7: with a viewer and its timeline available, a change of startTime or
\* stopTime invokes the zoom exactly once, with the parsed bounds, when both
\* are present and parse, and zero times, without throwing, when either is
\* absent or fails to parse.
C7_ZoomOncePerBoundsChange ==
    [][(/\ last'.op = "commit"
        /\ store.viewer /= NoViewer /\ Alive(engine, store.viewer)
        /\ engine[store.viewer].timeline
        /\ \/ store.clock.startTime /= hook.zoomStart
           \/ store.clock.stopTime /= hook.zoomStop)
       => /\ ~last'.threw
          /\ Alive(engine', store.viewer)
          /\ LET old == engine[store.viewer]
                 new == engine'[store.viewer]
             IN IF Parses(store.clock.startTime) /\ Parses(store.clock.stopTime)
                THEN /\ new.zooms = old.zooms + 1
                     /\ new.zoomArgs = <<Instant(store.clock.startTime),
                                         Instant(store.clock.stopTime)>>
                ELSE new.zooms = old.zooms]_vars

\* C8: when the cleanup of the tick subscription runs for a viewer that
\* reports isDestroyed(), the listener removal is not invoked on it and the
\* cleanup does not throw.
C8_CleanupSkipsDestroyedViewer ==
    [][\A v \in Handles :
          (/\ hook.tickSub = v /\ hook'.tickSub /= v
           /\ engine[v].phase = "destroyed")
          => /\ engine'[v].onTick = engine[v].onTick
             /\ last'.op = "unmount" => ~last'.threw]_vars

\* the cleanup has run for a destroyed viewer, whose listener is still there
C8_Witness ==
    \E v \in Handles :
        /\ engine[v].phase = "destroyed"
        /\ engine[v].onTick = 1
        /\ hook.tickSub /= v

C10_NullViewerIsNoOp ==
    [][(store.viewer = NoViewer /\ store'.viewer = NoViewer)
       => /\ last'.op /= "tick" =>
                /\ \A h \in Handles :
                      Alive(engine, h) /\ Alive(engine', h) => engine'[h] = engine[h]
                /\ store'.camera = store.camera
          /\ last'.op = "tick" => store' = store
          /\ last'.op = "mount" /\ ~ClockPropsThrows(store.clock)
                => ~last'.threw /\ hook'.mounted]_vars

\* the wrapper was mounted while the store had no viewer and a viewer was
\* still alive: no listener was attached to it
C10_Witness ==
    /\ store.viewer = NoViewer
    /\ last.op = "mount" /\ hook.mounted
    /\ \E h \in Handles : Alive(engine, h) /\ engine[h].onTick = 0

\* C11: whenever a viewer becomes available after having been absent (mount
\* or remount), the bridge attaches a tick listener to the new viewer and
\* applies the store's current clock config to its clock, whatever happened
\* with an earlier viewer.
C11_NewViewerIsSubscribedAndConfigured ==
    [][(/\ last'.op = "commit"
        /\ store.viewer /= NoViewer /\ store.viewer /= hook.depViewer
        /\ Alive(engine, store.viewer))
       => /\ ~last'.threw
          /\ Alive(engine', store.viewer)
          /\ hook'.tickSub = store.viewer
          /\ engine'[store.viewer].onTick = engine[store.viewer].onTick + 1
          /\ engine'[store.viewer].clock =
                applyClockConfigToViewer(engine[store.viewer].clock, store.clock)]_vars

\* C12: a store write made by the tick path changes only the clock's
\* currentTime: the other clock fields, the rest of the config and the
\* runtime state are what they were.
C12_TickWritesOnlyCurrentTime ==
    [][last'.op = "tick"
       => \E t \in {store.clock.currentTime,
                    JulianToIso8601(engine'[last'.h].clock.currentTime)} :
             store' = [store EXCEPT !.clock.currentTime = t]]_vars

\* a tick wrote the engine's time into a store whose clock has bounds, a
\* multiplier and a clockRange of its own
C12_Witness ==
    /\ last.op = "tick"
    /\ Alive(engine, last.h) /\ engine[last.h].onTick > 0
    /\ hook.lastSyncRef = now
    /\ store.clock.currentTime = JulianToIso8601(engine[last.h].clock.currentTime)
    /\ store.clock.multiplier /= DEFAULT_CLOCK.multiplier
    /\ store.clock.stopTime = EXAMPLE_CLOCK.stopTime
    /\ store.clock.shouldAnimate
    /\ store.viewer = last.h

\* C13: a currentTime that the tick path wrote to the store never makes the
\* write path set the engine's currentTime to a value older than the one the
\* engine holds at the assignment.  (After toggleAnimation as the only edit
\* and an accepted tick, the store's currentTime is the tick path's.)
C13_StoreNeverDrivesEngineBack ==
    [][(/\ last'.op = "commit" /\ ~last'.threw
        /\ store.viewer /= NoViewer
        /\ Alive(engine, store.viewer) /\ Alive(engine', store.viewer)
        /\ hook.lastSyncRef > 0
        /\ store.isAnimating /\ edits = 1)
       => engine'[store.viewer].clock.currentTime
             >= engine[store.viewer].clock.currentTime]_vars
\* C14: a tick source firing at 60 Hz for one second, the wall clock moving
\* with the ticks, makes at most two accepted store writes (under SpecTrain).
C14_AtMostTwoWritesPerSecond == last.gap = 0 => last.writes <= 2

\* the sixty ticks of the second have run and two of them wrote
C14_Witness ==
    /\ last.op = "tick" /\ last.gap = 0
    /\ last.ticks = TICK_HZ
    /\ last.writes = 2

\* C15: starting from an accepted tick, a second tick exactly 500 ms (or more)
\* later is accepted too and makes a second store write; a second tick 499 ms
\* later is discarded and leaves one write in total (under SpecTrain).
C15_ThrottleBoundary ==
    (last.lead = 0 /\ last.gap /= 0 /\ last.ticks = 2)
    => /\ last.gap >= THROTTLE_MS => last.writes = 2
       /\ last.gap < THROTTLE_MS => last.writes = 1

\* two ticks exactly 500 ms apart have both written: the store holds the
\* engine's time at the second
C15_Witness ==
    /\ last.op = "tick" /\ last.lead = 0
    /\ last.gap = THROTTLE_MS /\ last.ticks = 2
    /\ last.writes = 2
    /\ hook.lastSyncRef = StartNow + THROTTLE_MS
    /\ store.clock.currentTime = JulianToIso8601(engine[last.h].clock.currentTime)
C17_TextWithTIsUnchanged ==
    (last.applied >= 1 /\ \E i \in 1..Len(last.input) : last.input[i] = "T")
    => last.output = last.input

\* "2024-06-01T12:00:00+02:00" has gone through toIso8601 twice
C17_Witness ==
    /\ last.op = "toIso8601" /\ last.applied = 2
    /\ last.input = <<"2", "0", "2", "4", "-", "0", "6", "-", "0", "1", "T", "1", "2", ":", "0", "0", ":", "0", "0", "+", "0", "2", ":", "0", "0">>
    /\ last.output = last.input
\* C18: the write path is idempotent: applying the same clock config to the
\* engine clock twice in succession, nothing happening in between, leaves every
\* engine clock field as the first application left it (under SpecApply).
C18_ApplyTwiceIsApplyOnce ==
    [][(last.op = "apply" /\ last'.op = "apply" /\ last'.h = last.h)
       => engine' = engine]_vars

\* a config with a timestamp that parses, one that does not and a multiplier
\* of its own has been applied a second time
C18_Witness ==
    /\ last.op = "apply" /\ last.n = 2
    /\ store.clock.currentTime = TextT
    /\ store.clock.startTime = TextBad
    /\ store.clock.multiplier = 2
    /\ engine[last.h].clock.currentTime = 1
    /\ engine[last.h].clock.multiplier = 2

\* C19: UNBOUNDED, CLAMPED and LOOP_STOP are translated to three pairwise
\* distinct engine values, the same value on every application (under
\* SpecApply).
C19_ClockRangesStayDistinct ==
    last.op = "apply"
    => /\ engine[last.h].clock.clockRange = CLOCK_RANGE_MAP[store.clock.clockRange]
       /\ \A r \in ClockRanges \ {store.clock.clockRange} :
             CLOCK_RANGE_MAP[r] /= engine[last.h].clock.clockRange
       /\ Cardinality({CLOCK_RANGE_MAP[r] : r \in ClockRanges}) = 3

\* the engine holds the value of LOOP_STOP after a repeated application, and
\* it is neither the value of UNBOUNDED nor that of CLAMPED
C19_Witness ==
    /\ last.op = "apply" /\ last.n = 2
    /\ store.clock.clockRange = "LOOP_STOP"
    /\ engine[last.h].clock.clockRange = CLOCK_RANGE_MAP["LOOP_STOP"]
    /\ engine[last.h].clock.clockRange
          \notin {CLOCK_RANGE_MAP["UNBOUNDED"], CLOCK_RANGE_MAP["CLAMPED"]}
\* C20: a currentTime that a user edit wrote to the store while a viewer is
\* available is applied to the engine clock before a tick-originated write
\* replaces it in the store.  (A store currentTime ahead of the engine's,
\* with the config effect still to run, is a user's: the tick path writes
\* times the engine has held.)
C20_UserTimeSurvivesTicks ==
    [][\A h \in Handles :
          (/\ last'.op = "tick" /\ last'.h = h
           /\ h = store.viewer /\ engine[h].onTick > 0
           /\ hook.mounted /\ hook.clockStale
           /\ Parses(store.clock.currentTime)
           /\ Instant(store.clock.currentTime) > engine[h].clock.currentTime)
          => store'.clock.currentTime = store.clock.currentTime]_vars

\* C21: any two consecutive tick-originated store writes are at least 500 ms
\* of wall-clock time apart, whatever happened to viewers and subscriptions in
\* between.
C21_WritesHalfASecondApart ==
    [][(/\ last'.op = "tick"
        /\ hook'.lastSyncRef /= hook.lastSyncRef
        /\ last.sync.at > 0)
       => now - last.sync.at >= THROTTLE_MS]_vars

\* C21 as the code has it: two consecutive tick-originated store writes made
\* under one mount of the wrapper are at least 500 ms apart, also when the
\* viewer was torn down and another one subscribed in between; the
\* last-accepted timestamp lives as long as the mounted wrapper and no
\* re-subscription resets it.
C21_WritesOfOneMountHalfASecondApart ==
    [][/\ (/\ last'.op = "tick"
           /\ hook'.lastSyncRef /= hook.lastSyncRef
           /\ last.sync.own)
          => now - last.sync.at >= THROTTLE_MS
       /\ (hook.mounted /\ hook'.mounted /\ last'.op /= "tick")
          => hook'.lastSyncRef = hook.lastSyncRef]_vars

\* the second viewer of one mount has ticked with its listener attached, 499 ms
\* after the first viewer's tick wrote, and the store still holds that write
C21_Witness ==
    /\ last.op = "tick" /\ last.h = 2
    /\ Alive(engine, 2) /\ engine[2].onTick > 0 /\ store.viewer = 2
    /\ engine[1].phase = "destroyed"
    /\ last.sync.own /\ last.sync.by = 1
    /\ now - last.sync.at = THROTTLE_MS - 1
    /\ hook.lastSyncRef = last.sync.at

C23_ThrottleNeverStarvesStore ==
    /\ <>(last.writes >= 1)
    /\ [](last.lead = 0 /\ last.ticks >= 1 => last.writes >= 1)

\* the train began one millisecond after an accepted tick: its first tick was
\* discarded and a later one, once the window had passed, wrote
C23_Witness ==
    /\ last.op = "tick" /\ last.lead = 1
    /\ last.ticks >= 2 /\ last.writes = 1
    /\ hook.lastSyncRef >= StartNow + THROTTLE_MS
    /\ store.clock.currentTime = JulianToIso8601(engine[last.h].clock.currentTime)

\* C24: in every state reachable by the store's actions the runtime flag
\* isAnimating equals the persisted config.clock.shouldAnimate.
C24_IsAnimatingMirrorsConfig == store.isAnimating = store.clock.shouldAnimate

\* C25: setClockConfig(partial) is a partial merge: exactly the clock fields
\* present in the argument take the given values; every other clock field, the
\* rest of the config and the runtime state are unchanged.
C25_SetClockConfigMergesPartial ==
    [][last'.op = "setClockConfig"
       => /\ \A f \in DOMAIN store.clock :
                store'.clock[f] = IF f \in DOMAIN last'.arg
                                  THEN last'.arg[f] ELSE store.clock[f]
          /\ DOMAIN store'.clock = DOMAIN store.clock
          /\ \A k \in DOMAIN store : k /= "clock" => store'[k] = store[k]
          /\ DOMAIN store' = DOMAIN store
          /\ engine' = engine]_vars

\* the multiplier alone was set on the example's clock while a viewer was in
\* the store: bounds, current time, animation flag and range are the example's
C25_Witness ==
    /\ last.op = "setClockConfig"
    /\ last.arg = [multiplier |-> 2]
    /\ store.viewer /= NoViewer
    /\ store.clock = [EXAMPLE_CLOCK EXCEPT !.multiplier = 2]
    /\ ~store.isAnimating

\* C26: layer identifiers are unique: after any sequence of addLayer,
\* removeLayer, updateLayer and toggleLayerVisibility that starts from a
\* config with distinct layer ids, no two layers of config.layers have the
\* same id (under SpecLayers).
C26_LayerIdsAreUnique ==
    \A i, j \in 1..Len(store.layers) :
        i /= j => store.layers[i].id /= store.layers[j].id

\* C27: every call of createDefaultCesiumConfig yields a configuration that
\* earlier calls have no part in: after the result of one call was mutated
\* (its layers or its clock assigned), a later call still returns the
\* defaults, and a slice created without an initialConfig still starts from
\* them (under SpecConfig).
C27_DefaultConfigIsFresh ==
    /\ last.op = "createDefaultCesiumConfig"
          => last.returned = DEFAULT_CESIUM_CONFIG
    /\ (last.op = "createCesiumSlice" /\ ~last.initial)
          => store = createCesiumSlice(LoadedConfigs, NoConfig)

\* C28: the store's viewer is null until the wrapper has received a viewer
\* instance and null again once the wrapper is unmounted, and is the viewer
\* the wrapper received in between; it changes only through setViewer, called
\* by handleViewerRef and by the unmount cleanup, and no other store action
\* changes it.
C28_StoreViewerFollowsWrapper ==
    [][/\ ~hook'.mounted => store'.viewer = NoViewer
       /\ hook'.mounted => store'.viewer = hook'.viewerInstanceRef
       /\ store'.viewer /= store.viewer
             => \/ last'.op = "handleViewerRef" /\ store'.viewer = last'.h
                \/ last'.op \in {"unmount", "commit"} /\ ~hook'.mounted
                      /\ store'.viewer = NoViewer]_vars

\* the wrapper has been unmounted: the viewer it had received is still alive,
\* without the camera listener, and the store's viewer is null again
C28_Witness ==
    /\ last.op = "unmount" /\ ~hook.mounted
    /\ store.viewer = NoViewer
    /\ \E h \in Handles : Alive(engine, h) /\ engine[h].moveEnd = 0

\* C29: useSqlToCesiumEntities returns one descriptor per row, in row order,
\* with id "<layerId>-<rowIndex>", so that the ids of a layer are pairwise
\* distinct; a row whose time does not parse is still there, only without an
\* availability interval; an empty or missing row list gives an empty list
\* (under SpecEntities).
C29_OneDescriptorPerRow ==
    last.op = "useSqlToCesiumEntities"
    => LET list == last.rows.list
           out == last.entities
           layer == last.layerConfig
       IN /\ Len(out) = Len(list)
          /\ (~last.rows.given \/ Len(list) = 0) => out = <<>>
          /\ \A i \in 1..Len(list) :
                /\ i <= 10 => out[i].id = layer.id \o <<"-", DigitChars[i]>>
                /\ layer.mapsTime
                      => out[i].time = toIso8601(StringOf(list[i].time))
                /\ ~layer.mapsTime => out[i].time = Undefined
                /\ (layer.mapsTime /\ Malformed(StringOf(list[i].time)))
                      => out[i].availability = <<>>
          /\ \A i, j \in 1..Len(out) : i /= j => out[i].id /= out[j].id

\* three rows of the layer "earthquakes", the second with a time that does
\* not parse: three descriptors, the second without availability, the others
\* available from their own time to the last row's
C29_Witness ==
    /\ last.op = "useSqlToCesiumEntities"
    /\ last.layerConfig.mapsTime
    /\ last.rows.given
    /\ last.rows.list = <<[time |-> TextT], [time |-> TextBad], [time |-> TextSpace]>>
    /\ Len(last.entities) = 3
    /\ last.entities[1].availability = <<1, 2>>
    /\ last.entities[2].availability = <<>>
    /\ last.entities[3].availability = <<2, 2>>
    /\ last.entities[3].id = last.layerConfig.id \o <<"-", "2">>

\* C30: toIso8601 is idempotent on every input text:
\* toIso8601(toIso8601(x)) = toIso8601(x), also for texts with neither a space
\* nor a T and for texts with several spaces (under SpecIso).
C30_ToIso8601IsIdempotent ==
    [][(last.applied >= 1 /\ last'.applied = last.applied + 1)
       => last'.output = last.output]_vars

\* "bad", without space or T, and a date and a time two spaces apart have
\* each gone through toIso8601 twice
C30_Witness ==
    /\ last.op = "toIso8601" /\ last.applied = 2
    /\ \/ /\ last.input = <<"b", "a", "d">>
          /\ last.output = <<"b", "a", "d", "Z">>
       \/ /\ last.input = <<"1", "9", "6", "7", "-", "0", "1", "-", "1", "5", " ", " ", "0", "8", ":", "2", "3", ":", "0", "0">>
          /\ last.output = <<"1", "9", "6", "7", "-", "0", "1", "-", "1", "5", "T", " ", "0", "8", ":", "2", "3", ":", "0", "0", "Z">>

====
